---- MODULE Spec2Model ----
(***************************************************************************)
(* Model of techlibs/gowin/cells_xtra.py: the command-line entry point     *)
(* opens cells_xtra.v, writes a two-line header and calls                  *)
(* xtract_cells_decl once per candidate directory; xtract_cells_decl reads *)
(* prim_sim.v line by line and prints the name of every module it finds.   *)
(*                                                                         *)
(* Text is a sequence of one-character strings; indices of the string      *)
(* operators are Python's (0-based, -1 for "not found").  A path is a      *)
(* sequence of path tokens in which "/" is a token of its own.             *)
(***************************************************************************)
EXTENDS Integers, Sequences, FiniteSets

\* ------------------------------------------------------------------ bounds
\* longest text that follows a line's head in a one-line source file
MaxTail == 3
\* most lines of a source file built from SampleLines
MaxLines == 3

\* ------------------------------------------------- Python string operators
Min(S) == CHOOSE x \in S : \A y \in S : x <= y
Max(S) == CHOOSE x \in S : \A y \in S : x >= y

\* characters removed by str.strip() with no argument
Whitespace == {" ", "\n", "\t", "\r"}

\* 0-based start indices at which sub occurs in s
Occurrences(s, sub) ==
  {i \in 0..(Len(s) - Len(sub)) : SubSeq(s, i + 1, i + Len(sub)) = sub}

\* str.rfind: highest index of sub in s, -1 when absent
RFind(s, sub) ==
  IF Occurrences(s, sub) = {} THEN -1 ELSE Max(Occurrences(s, sub))

\* str.find that reports "absent" as the end of the string
FindOrEnd(s, sub) ==
  IF Occurrences(s, sub) = {} THEN Len(s) ELSE Min(Occurrences(s, sub))

\* str.find: lowest index of sub in s, -1 when absent (it never raises)
Find(s, sub) ==
  IF Occurrences(s, sub) = {} THEN -1 ELSE Min(Occurrences(s, sub))

\* a slice bound as Python normalises it: negative counts from the end,
\* and the result is clamped to 0..n
Clamp(i, n) ==
  IF i < 0 THEN (IF i + n < 0 THEN 0 ELSE i + n)
           ELSE (IF i > n THEN n ELSE i)

\* s[start:stop]
Slice(s, start, stop) ==
  LET a == Clamp(start, Len(s))
      b == Clamp(stop, Len(s))
  IN  IF a >= b THEN <<>> ELSE SubSeq(s, a + 1, b)

\* str.lstrip(): leading whitespace only
LStrip(s) ==
  LET keep == {i \in 1..Len(s) : s[i] \notin Whitespace}
  IN  IF keep = {} THEN <<>> ELSE SubSeq(s, Min(keep), Len(s))

\* str.strip(): leading and trailing whitespace removed
Strip(s) ==
  LET keep == {i \in 1..Len(s) : s[i] \notin Whitespace}
  IN  IF keep = {} THEN <<>> ELSE SubSeq(s, Min(keep), Max(keep))

\* the membership test  p in s
Contains(s, p) == Occurrences(s, p) # {}

\* str.startswith
StartsWith(s, p) == Len(s) >= Len(p) /\ SubSeq(s, 1, Len(p)) = p

\* str.partition: <<before, sep, after>>, or <<s, '', ''>> when sep is absent
Partition(s, sep) ==
  LET k == Find(s, sep)
  IN  IF k = -1 THEN <<s, <<>>, <<>>>>
      ELSE <<Slice(s, 0, k), sep, Slice(s, k + Len(sep), Len(s))>>

\* ------------------------------------------------------- program literals
CommentMarker == <<"/", "/">>
ModulePrefix == <<"m", "o", "d", "u", "l", "e", " ">>
PrefixLen == 7
Paren == <<"(">>

HeaderLine1 == "// Created by cells_xtra.py\n"
HeaderLine2 == "\n"
Header == <<HeaderLine1, HeaderLine2>>

DefaultGowinDir == <<"/", "opt", "/", "gowin", "/">>
SimlibRel == <<"IDE", "/", "simlib", "/", "gw1n", "/">>
PrimSim == <<"prim_sim.v">>

\* os.path.join(a, b) for a relative b
PathJoin(a, b) ==
  IF a = <<>> THEN b
  ELSE IF a[Len(a)] = "/" THEN a \o b
  ELSE a \o <<"/">> \o b

\* the text of  f'{dir} is not a directory'
Notice(d) ==
  d \o <<" ", "i", "s", " ", "n", "o", "t", " ", "a", " ",
         "d", "i", "r", "e", "c", "t", "o", "r", "y">>

\* l[7:l.find('(')] with the last '(' taken instead of the first
CellNameLastParen(l) == Strip(Slice(l, PrefixLen, RFind(l, Paren)))

\* l[7:l.find('(')] with a missing '(' read as the end of the text
CellNameToEnd(l) == Strip(Slice(l, PrefixLen, FindOrEnd(l, Paren)))

\* l[7:l.find('(')].lstrip()
CellNameLStrip(l) == LStrip(Slice(l, PrefixLen, Find(l, Paren)))

\* cell_name = l[7:l.find('(')].strip(), l being the text before '//'
CellName(l) == Strip(Slice(l, PrefixLen, Find(l, Paren)))

\* the test  "module " in l
IsModuleLineAnywhere(l) == Contains(l, ModulePrefix)

\* the test  l.startswith("module ")
IsModuleLine(l) == StartsWith(l, ModulePrefix)

\* ------------------------------------------------------------ the inputs
Alphabet == {"A", "B", " ", "(", "/"}

RECURSIVE Texts(_)
\* every text over Alphabet of length at most n
Texts(n) ==
  IF n = 0 THEN {<<>>}
  ELSE LET shorter == Texts(n - 1)
       IN  shorter \cup {Append(t, c) : t \in shorter, c \in Alphabet}

\* how a line may begin: nothing, the prefix, the prefix after a blank, the
\* keyword without its blank, the prefix inside a comment
Heads ==
  { <<>>,
    ModulePrefix,
    <<" ">> \o ModulePrefix,
    <<"m", "o", "d", "u", "l", "e">>,
    CommentMarker \o ModulePrefix }

\* line bodies (no terminator) of the one-line source files
RichLines == {h \o t : h \in Heads, t \in Texts(MaxTail)}

\* line bodies of the source files of several lines
SampleLines ==
  { ModulePrefix \o <<"A", "(">>,
    ModulePrefix \o <<" ", "B", " ", "(", "A">>,
    ModulePrefix \o <<"A", "B">>,
    ModulePrefix \o <<"A", "B", "/", "/", "(">>,
    ModulePrefix \o <<"B", "(", " ", "/", "/", " ", "A">>,
    CommentMarker \o <<" ">> \o ModulePrefix \o <<"B", "(">>,
    <<"B", "(", "A">> }

RECURSIVE BodySeqs(_)
\* sequences of exactly n sample bodies
BodySeqs(n) ==
  IF n = 0 THEN {<<>>}
  ELSE {Append(s, b) : s \in BodySeqs(n - 1), b \in SampleLines}

\* a text file as iteration yields it: every line ends in "\n", except that
\* the last one may lack it
Terminate(bodies, lastHasNewline) ==
  [i \in 1..Len(bodies) |->
     IF i < Len(bodies) \/ lastHasNewline
     THEN Append(bodies[i], "\n") ELSE bodies[i]]

SourceFiles ==
  {<<>>}
  \cup {Terminate(<<b>>, nl) : b \in RichLines, nl \in BOOLEAN}
  \cup UNION {{Terminate(s, nl) : s \in BodySeqs(n), nl \in BOOLEAN} :
              n \in 2..MaxLines}

\* the file system as the run finds it: the candidate directory missing,
\* present without prim_sim.v, or present with it
FileSystems ==
  {[isdir |-> FALSE, exists |-> FALSE, lines |-> <<>>],
   [isdir |-> TRUE, exists |-> FALSE, lines |-> <<>>]}
  \cup {[isdir |-> TRUE, exists |-> TRUE, lines |-> f] : f \in SourceFiles}

\* command lines: no positional argument, or one
CommandLines == {<<>>, <<<<"/", "x">>>>}

\* what cells_xtra.v holds before the run
StaleOutputs == {<<>>, <<"stale\n">>}

\* ------------------------------------------------------------------ state
VARIABLES
  pc,          \* the statement the run is at
  argv,        \* the positional command-line arguments
  gowin_dir,   \* args.gowin_dir
  dirs,        \* the candidate directories not yet visited
  dir,         \* the loop variable of  for dir in dirs
  fs,          \* the candidate directory and its prim_sim.v
  outWritable, \* whether cells_xtra.v can be opened for writing
  outFile,     \* the content of cells_xtra.v, one entry per write
  foutOpen,    \* whether the handle fout is open
  fname,       \* the path xtract_cells_decl opens
  fOpen,       \* whether the handle f is open
  pos,         \* how many lines of f have been read
  state,       \* the State value, assigned once and never read
  l,           \* the loop variable l: the line, then the text before '//'
  comment,     \* the text after '//'
  cell_name,   \* the last name extracted
  stdout,      \* the lines printed on standard output
  fault        \* the uncaught exception that ended the run, or "none"

vars ==
  <<pc, argv, gowin_dir, dirs, dir, fs, outWritable, outFile, foutOpen,
    fname, fOpen, pos, state, l, comment, cell_name, stdout, fault>>

Init ==
  /\ pc = "parse"
  /\ argv \in CommandLines
  /\ gowin_dir = <<>>
  /\ dirs = <<>>
  /\ dir = <<>>
  /\ fs \in FileSystems
  /\ outWritable \in BOOLEAN
  /\ outFile \in StaleOutputs
  /\ foutOpen = FALSE
  /\ fname = <<>>
  /\ fOpen = FALSE
  /\ pos = 0
  /\ state = "unset"
  /\ l = <<>>
  /\ comment = <<>>
  /\ cell_name = <<>>
  /\ stdout = <<>>
  /\ fault = "none"

\* ---------------------------------------------------------------- actions
\* parse_args and the dirs list: gowin_dir is the argument or its default
ParseArgs ==
  /\ pc = "parse"
  /\ gowin_dir' = IF argv = <<>> THEN DefaultGowinDir ELSE argv[1]
  /\ dirs' = <<PathJoin(gowin_dir', SimlibRel)>>
  /\ pc' = "open_out"
  /\ UNCHANGED <<argv, dir, fs, outWritable, outFile, foutOpen, fname, fOpen,
                 pos, state, l, comment, cell_name, stdout, fault>>

\* with open('cells_xtra.v', 'w') as fout: truncates, or raises
OpenOut ==
  /\ pc = "open_out"
  /\ IF outWritable
     THEN /\ outFile' = <<>>
          /\ foutOpen' = TRUE
          /\ pc' = "header1"
          /\ UNCHANGED fault
     ELSE /\ fault' = "OSError"
          /\ pc' = "failed"
          /\ UNCHANGED <<outFile, foutOpen>>
  /\ UNCHANGED <<argv, gowin_dir, dirs, dir, fs, outWritable, fname, fOpen,
                 pos, state, l, comment, cell_name, stdout>>

\* fout.write('// Created by cells_xtra.py\n')
WriteHeader1 ==
  /\ pc = "header1"
  /\ outFile' = Append(outFile, HeaderLine1)
  /\ pc' = "header2"
  /\ UNCHANGED <<argv, gowin_dir, dirs, dir, fs, outWritable, foutOpen, fname,
                 fOpen, pos, state, l, comment, cell_name, stdout, fault>>

\* fout.write('\n')
WriteHeader2 ==
  /\ pc = "header2"
  /\ outFile' = Append(outFile, HeaderLine2)
  /\ pc' = "for_dir"
  /\ UNCHANGED <<argv, gowin_dir, dirs, dir, fs, outWritable, foutOpen, fname,
                 fOpen, pos, state, l, comment, cell_name, stdout, fault>>

\* for dir in dirs: the next directory, or the end of the with block, which
\* closes fout and ends the run
NextDir ==
  /\ pc = "for_dir"
  /\ IF dirs = <<>>
     THEN /\ foutOpen' = FALSE
          /\ pc' = "done"
          /\ UNCHANGED <<dirs, dir>>
     ELSE /\ dir' = Head(dirs)
          /\ dirs' = Tail(dirs)
          /\ pc' = "isdir"
          /\ UNCHANGED foutOpen
  /\ UNCHANGED <<argv, gowin_dir, fs, outWritable, outFile, fname, fOpen, pos,
                 state, l, comment, cell_name, stdout, fault>>

\* if not os.path.isdir(dir): print(...); continue
CheckDirSkip ==
  /\ pc = "isdir"
  /\ IF fs.isdir
     THEN pc' = "open_src" /\ UNCHANGED stdout
     ELSE pc' = "for_dir" /\ stdout' = Append(stdout, Notice(dir))
  /\ UNCHANGED <<argv, gowin_dir, dirs, dir, fs, outWritable, outFile,
                 foutOpen, fname, fOpen, pos, state, l, comment, cell_name,
                 fault>>

\* if not os.path.isdir(dir): print(f'{dir} is not a directory'),
\* and the call of xtract_cells_decl follows either way
CheckDir ==
  /\ pc = "isdir"
  /\ stdout' = IF fs.isdir THEN stdout ELSE Append(stdout, Notice(dir))
  /\ pc' = "open_src"
  /\ UNCHANGED <<argv, gowin_dir, dirs, dir, fs, outWritable, outFile,
                 foutOpen, fname, fOpen, pos, state, l, comment, cell_name,
                 fault>>

\* open(fname) raising with fout left open
OpenSrcLeak ==
  /\ pc = "open_src"
  /\ fname' = PathJoin(dir, PrimSim)
  /\ IF fs.exists
     THEN /\ fOpen' = TRUE
          /\ pos' = 0
          /\ state' = "OUTSIDE"
          /\ pc' = "for_line"
          /\ UNCHANGED <<foutOpen, fault>>
     ELSE /\ fault' = "FileNotFoundError"
          /\ pc' = "failed"
          /\ UNCHANGED <<foutOpen, fOpen, pos, state>>
  /\ UNCHANGED <<argv, gowin_dir, dirs, dir, fs, outWritable, outFile, l,
                 comment, cell_name, stdout>>

\* xtract_cells_decl(dir, fout) up to the loop: fname is formed and opened;
\* a missing file raises, the exception leaves the with block of the caller
\* (closing fout) and ends the run
OpenSrc ==
  /\ pc = "open_src"
  /\ fname' = PathJoin(dir, PrimSim)
  /\ IF fs.exists
     THEN /\ fOpen' = TRUE
          /\ pos' = 0
          /\ state' = "OUTSIDE"
          /\ pc' = "for_line"
          /\ UNCHANGED <<foutOpen, fault>>
     ELSE /\ fault' = "FileNotFoundError"
          /\ foutOpen' = FALSE
          /\ pc' = "failed"
          /\ UNCHANGED <<fOpen, pos, state>>
  /\ UNCHANGED <<argv, gowin_dir, dirs, dir, fs, outWritable, outFile, l,
                 comment, cell_name, stdout>>

\* for l in f: the next line, or the end of the file, which closes f and
\* returns to the caller's loop
ReadLine ==
  /\ pc = "for_line"
  /\ IF pos < Len(fs.lines)
     THEN /\ l' = fs.lines[pos + 1]
          /\ pos' = pos + 1
          /\ pc' = "line"
          /\ UNCHANGED fOpen
     ELSE /\ fOpen' = FALSE
          /\ pc' = "for_dir"
          /\ UNCHANGED <<l, pos>>
  /\ UNCHANGED <<argv, gowin_dir, dirs, dir, fs, outWritable, outFile,
                 foutOpen, fname, state, comment, cell_name, stdout, fault>>

\* the loop body with the name also written to fout
ProcessLineToFout ==
  /\ pc = "line"
  /\ LET parts == Partition(l, CommentMarker)
     IN  /\ l' = parts[1]
         /\ comment' = parts[3]
         /\ IF IsModuleLine(parts[1])
            THEN /\ cell_name' = CellName(parts[1])
                 /\ stdout' = Append(stdout, cell_name')
                 /\ outFile' = Append(outFile, "cell\n")
            ELSE UNCHANGED <<cell_name, stdout, outFile>>
  /\ pc' = "for_line"
  /\ UNCHANGED <<argv, gowin_dir, dirs, dir, fs, outWritable, foutOpen,
                 fname, fOpen, pos, state, fault>>

\* the loop body with each name printed once only
ProcessLineDedup ==
  /\ pc = "line"
  /\ LET parts == Partition(l, CommentMarker)
     IN  /\ l' = parts[1]
         /\ comment' = parts[3]
         /\ IF IsModuleLine(parts[1])
            THEN /\ cell_name' = CellName(parts[1])
                 /\ stdout' =
                      IF \E i \in 1..Len(stdout) : stdout[i] = cell_name'
                      THEN stdout ELSE Append(stdout, cell_name')
            ELSE UNCHANGED <<cell_name, stdout>>
  /\ pc' = "for_line"
  /\ UNCHANGED <<argv, gowin_dir, dirs, dir, fs, outWritable, outFile,
                 foutOpen, fname, fOpen, pos, state, fault>>

\* the loop body with the '(' looked up in the line as read
ProcessLineRawFind ==
  /\ pc = "line"
  /\ LET parts == Partition(l, CommentMarker)
     IN  /\ l' = parts[1]
         /\ comment' = parts[3]
         /\ IF IsModuleLine(parts[1])
            THEN /\ cell_name' = Strip(Slice(l, PrefixLen, Find(l, Paren)))
                 /\ stdout' = Append(stdout, cell_name')
            ELSE UNCHANGED <<cell_name, stdout>>
  /\ pc' = "for_line"
  /\ UNCHANGED <<argv, gowin_dir, dirs, dir, fs, outWritable, outFile,
                 foutOpen, fname, fOpen, pos, state, fault>>

\* the loop body: l, _, comment = l.partition('//'); on a line that starts
\* with "module " the name is extracted and printed; fout is not used
ProcessLine ==
  /\ pc = "line"
  /\ LET parts == Partition(l, CommentMarker)
     IN  /\ l' = parts[1]
         /\ comment' = parts[3]
         /\ IF IsModuleLine(parts[1])
            THEN /\ cell_name' = CellName(parts[1])
                 /\ stdout' = Append(stdout, cell_name')
            ELSE UNCHANGED <<cell_name, stdout>>
  /\ pc' = "for_line"
  /\ UNCHANGED <<argv, gowin_dir, dirs, dir, fs, outWritable, outFile,
                 foutOpen, fname, fOpen, pos, state, fault>>

Next ==
  \/ ParseArgs
  \/ OpenOut
  \/ WriteHeader1
  \/ WriteHeader2
  \/ NextDir
  \/ CheckDir
  \/ OpenSrc
  \/ ReadLine
  \/ ProcessLine

Spec == Init /\ [][Next]_vars

\* ------------------------------------------------- vocabulary of the claims
\* positions (from 1) of '(' and of the '//' marker in a text
ParenAt(s) == {i \in 1..Len(s) : s[i] = "("}
MarkerAt(s) == {i \in 1..(Len(s) - 1) : s[i] = "/" /\ s[i + 1] = "/"}

\* the text before the first '//'
BeforeComment(s) ==
  IF MarkerAt(s) = {} THEN s ELSE SubSeq(s, 1, Min(MarkerAt(s)) - 1)

\* the text begins with the seven characters "module "
BeginsWithModule(s) ==
  /\ Len(s) >= 7
  /\ s[1] = "m" /\ s[2] = "o" /\ s[3] = "d" /\ s[4] = "u"
  /\ s[5] = "l" /\ s[6] = "e" /\ s[7] = " "

\* the text has a '(' and no '//' before the first one
ParenBeforeComment(s) ==
  /\ ParenAt(s) # {}
  /\ \A m \in MarkerAt(s) : Min(ParenAt(s)) < m

RECURSIVE TrimLeft(_)
TrimLeft(s) ==
  IF s # <<>> /\ Head(s) \in Whitespace THEN TrimLeft(Tail(s)) ELSE s

RECURSIVE TrimRight(_)
TrimRight(s) ==
  IF s # <<>> /\ s[Len(s)] \in Whitespace
  THEN TrimRight(SubSeq(s, 1, Len(s) - 1)) ELSE s

\* the text without its leading and trailing whitespace
Trimmed(s) == TrimRight(TrimLeft(s))

\* the text between the prefix and the first '(' of s, trimmed
NameUpToParen(s) == Trimmed(SubSeq(s, 8, Min(ParenAt(s)) - 1))

\* the text after the prefix without its last character, trimmed
NameUpToLast(s) == Trimmed(SubSeq(s, 8, Len(s) - 1))

\* the lines whose loop body has run
Processed == IF pc = "line" THEN pos - 1 ELSE pos

\* the loop body has just run on the line body b (with or without "\n")
JustProcessed(b) ==
  /\ pc = "for_line"
  /\ pos >= 1
  /\ fs.lines[pos] \in {b, Append(b, "\n")}

\* the last line printed
LastPrinted == stdout[Len(stdout)]

\* ------------------------------------------------------------------ claims
\* C1: a line whose text before the first '//' does not begin with "module "
\* has no name printed for it.
C1_NoNameForOtherLines ==
  [][(pc = "line" /\ ~BeginsWithModule(BeforeComment(l)))
       => stdout' = stdout]_vars

C1_Witness ==
  /\ JustProcessed(<<" ">> \o ModulePrefix \o <<"A", "(">>)
  /\ stdout = <<>>

\* C2: for a line that begins with "module " and has a '(' before any '//',
\* the name printed is the text between the prefix and the first '(',
\* trimmed.
C2_NameBetweenPrefixAndParen ==
  [][(pc = "line" /\ BeginsWithModule(l) /\ ParenBeforeComment(l))
       => stdout' = Append(stdout, NameUpToParen(l))]_vars

C2_Witness ==
  /\ JustProcessed(ModulePrefix \o <<" ", "B", " ", "(", "A">>)
  /\ stdout # <<>>
  /\ LastPrinted = <<"B">>

\* C3 as stated: a line that begins with "module " and has no '(' raises a
\* fatal fault, with no name printed and no later line processed.
C3_FaultWithoutParen ==
  [][(pc = "line" /\ BeginsWithModule(l) /\ ParenAt(l) = {})
       => (stdout' = stdout /\ pc' = "failed" /\ fault' # "none")]_vars

\* C3 amended: a line that begins with "module " and has no '(' raises
\* nothing: the name printed is the text before '//' from after the prefix
\* up to, not including, its last character, trimmed, and the loop goes on
\* to the next line.
C3_NameWithoutParen ==
  [][(pc = "line" /\ BeginsWithModule(l) /\ ParenAt(l) = {})
       => /\ stdout' = Append(stdout, NameUpToLast(BeforeComment(l)))
          /\ pc' = "for_line"
          /\ fault' = "none"]_vars

C3_Witness ==
  /\ pc = "done"
  /\ fs.lines = <<ModulePrefix \o <<"A", "B">>>>
  /\ stdout = <<<<"A">>>>
  /\ fault = "none"

\* C4 as stated: the name of a module line ends at the first '(' of the line
\* as read, also when that '(' lies after '//'.
C4_ParenOfLineAsRead ==
  [][(pc = "line" /\ BeginsWithModule(l) /\ ParenAt(l) # {})
       => stdout' = Append(stdout, NameUpToParen(l))]_vars

\* C4 amended: the name of a module line ends at the first '(' of the text
\* before the first '//'; a '(' after the '//' is not seen, and the name is
\* then that text after the prefix without its last character, trimmed.
C4_ParenOfStrippedText ==
  [][(pc = "line" /\ BeginsWithModule(l) /\ ParenAt(l) # {})
       => LET t == BeforeComment(l)
          IN  stdout' = Append(stdout, IF ParenAt(t) # {}
                                       THEN NameUpToParen(t)
                                       ELSE NameUpToLast(t))]_vars

C4_Witness ==
  /\ JustProcessed(ModulePrefix \o <<"A", "B", "/", "/", "(">>)
  /\ stdout # <<>>
  /\ LastPrinted = <<"A">>

RECURSIVE NamesOf(_)
\* one name per line that begins with "module ", in the order of the lines
NamesOf(lines) ==
  IF lines = <<>> THEN <<>>
  ELSE (IF BeginsWithModule(Head(lines))
        THEN <<NameUpToParen(Head(lines))>> ELSE <<>>)
       \o NamesOf(Tail(lines))

\* C5: when every line that begins with "module " has a '(' before any '//',
\* standard output holds one name per such line processed, in the order of
\* the lines, repeated names included.
C5_OneNamePerLineInOrder ==
  (/\ fs.exists
   /\ \A i \in 1..Len(fs.lines) :
        BeginsWithModule(fs.lines[i]) => ParenBeforeComment(fs.lines[i]))
    => stdout = NamesOf(SubSeq(fs.lines, 1, Processed))

C5_Witness ==
  /\ pc = "done"
  /\ Len(fs.lines) = 3
  /\ stdout = <<<<"A">>, <<"B">>, <<"A">>>>

\* C6: cells_xtra.v is empty once opened and holds exactly the two header
\* lines from the second write to the end of the run, whatever is read and
\* printed.
C6_OnlyHeaderInOutput ==
  /\ pc = "header1" => outFile = <<>>
  /\ pc = "header2" => outFile = <<HeaderLine1>>
  /\ (pc \in {"for_dir", "isdir", "open_src", "for_line", "line", "done"}
      \/ (pc = "failed" /\ fault # "OSError"))
       => outFile = <<"// Created by cells_xtra.py\n", "\n">>

C6_Witness ==
  /\ pc = "done"
  /\ Len(stdout) >= 2
  /\ outFile = Header

\* C7: when the candidate directory does not exist the notice is printed,
\* extraction is attempted all the same and fails on opening the source
\* file; the notice comes before the failure, no name is printed and the run
\* never completes normally.
C7_MissingDirectory ==
  /\ [](~fs.isdir =>
          /\ pc # "done"
          /\ pc \notin {"for_line", "line"}
          /\ stdout \in {<<>>, <<Notice(dir)>>}
          /\ (pc = "open_src" \/ fault = "FileNotFoundError")
               => stdout = <<Notice(dir)>>)
  /\ [][(~fs.isdir /\ pc = "isdir") => pc' = "open_src"]_vars
  /\ [][(~fs.isdir /\ pc = "open_src")
          => (pc' = "failed" /\ fault' = "FileNotFoundError")]_vars

C7_Witness ==
  /\ ~fs.isdir
  /\ pc = "failed"
  /\ fault = "FileNotFoundError"
  /\ stdout = <<Notice(PathJoin(DefaultGowinDir, SimlibRel))>>

\* C8: once opened, the output handle stays open while the run goes on and
\* is closed in every final state, with the two header lines in the file;
\* extraction never runs with the handle closed.
C8_OutputHandleScoped ==
  /\ pc \in {"done", "failed"} => ~foutOpen
  /\ (pc \in {"done", "failed"} /\ fault # "OSError") => outFile = Header
  /\ pc \in {"header1", "header2", "for_dir", "isdir", "open_src",
             "for_line", "line"} => foutOpen
  /\ fOpen => foutOpen

C8_Witness ==
  /\ pc = "failed"
  /\ fault = "FileNotFoundError"
  /\ fs.isdir
  /\ ~foutOpen
  /\ outFile = Header

\* longest comment text added to a line
MaxComment == 1

\* the line with '//' and some text put in anywhere after its first '('
WithComment(s) ==
  {SubSeq(s, 1, k) \o CommentMarker \o c \o SubSeq(s, k + 1, Len(s)) :
     k \in Min(ParenAt(s))..Len(s), c \in Texts(MaxComment)}

\* what the loop body prints for a line: nothing, or one name
PrintedFor(line) ==
  LET before == Partition(line, CommentMarker)[1]
  IN  IF IsModuleLine(before) THEN <<CellName(before)>> ELSE <<>>

\* C9: for a line that begins with "module " and has a '(' before any '//',
\* a '//' comment put after that '(' leaves the printed name as it is.
C9_CommentAfterParenIgnored ==
  [][(pc = "line" /\ BeginsWithModule(l) /\ ParenBeforeComment(l))
       => \A v \in WithComment(l) : stdout' = stdout \o PrintedFor(v)]_vars

C9_Witness ==
  /\ JustProcessed(ModulePrefix \o <<"B", "(", " ", "/", "/", " ", "A">>)
  /\ stdout # <<>>
  /\ LastPrinted = <<"B">>

\* C10: a printed name has no '(', no '//' and no whitespace at either end;
\* it may be empty.
C10_NameWellFormed ==
  [][(pc = "line" /\ stdout' # stdout)
       => LET n == stdout'[Len(stdout')]
          IN  /\ ParenAt(n) = {}
              /\ MarkerAt(n) = {}
              /\ n # <<>> => (n[1] \notin Whitespace
                              /\ n[Len(n)] \notin Whitespace)]_vars

C10_Witness ==
  /\ JustProcessed(ModulePrefix \o <<"(">>)
  /\ stdout = <<<<>>>>

====
